---- MODULE Spec2Model ----
(***************************************************************************)
(* A model of the micromouse navigation engine of mackalgo (src/Algo.cpp): *)
(* the sense / replan / move loop of Algo::solve, the search of            *)
(* Algo::generatePath, the path reversal, the prefix execution of          *)
(* Algo::followPath and the rollback of Algo::reset.                       *)
(*                                                                         *)
(* Maze, Heap, History and API are used by Algo.cpp but their sources are  *)
(* not part of src/; their accessors are modelled from the specification   *)
(* and from the way Algo.cpp uses them.                                    *)
(***************************************************************************)
EXTENDS Integers, Sequences, FiniteSets, TLC

VARIABLES
    pc,            \* position of the control flow of Algo::solve
    maze,          \* the per-cell data held by Maze
    m_x,           \* mouse column
    m_y,           \* mouse row
    m_d,           \* mouse heading
    m_mode,        \* goal mode
    history,       \* the stack held by History
    heap,          \* the cells held by Heap
    start,         \* the local 'start' of Algo::step (result of the last search)
    backChain,     \* the next pointers as the search left them, before reversal
    resetPending,  \* the reset signal of the Boundary (API::wasReset)
    resets,        \* number of reset signals raised so far
    walls,         \* the true interior walls of the physical maze
    fast,          \* FAST_STRAIGHT_AWAYS
    lowFirst,      \* the order in which Heap::pop breaks ties
    probe,         \* inputs of the experiments on single operations
    api,           \* the motion calls the last moveOneCell made to the Boundary
    heapUse        \* how the last search pass called Heap::push and Heap::update

vars == <<pc, maze, m_x, m_y, m_d, m_mode, history, heap, start, backChain,
          resetPending, resets, walls, fast, lowFirst, probe, api,
                   heapUse>>

(***************************************************************************)
(* Bounds of the model.                                                    *)
(***************************************************************************)
MaxHist == 9
MaxResets == 2
LegSteps == 6

(***************************************************************************)
(* Configuration: grid geometry and enumerations.                          *)
(***************************************************************************)
WIDTH == 4
HEIGHT == 4
CLLX == 1
CLLY == 1
CURX == 2
CURY == 2
MaxGrid == 16

NORTH == 0
EAST == 1
SOUTH == 2
WEST == 3

CENTER == "CENTER"
ORIGIN == "ORIGIN"
GIVEUP == "GIVEUP"

maxDistance == 65535
TwoByte == 65536
Byte == 256
FastCost == 256
SimpleTurnCost == 2
SimpleStraightCost == 3

m_initialDirection == NORTH

Directions == 0..3
Cells == 0..(WIDTH * HEIGHT - 1)
NoCell == WIDTH * HEIGHT

(***************************************************************************)
(* Bind(v, F) is F(v) with v evaluated once: the intermediate values of a  *)
(* sequential computation are bound before they are used.                  *)
(***************************************************************************)
Bind(v, F(_)) == CHOOSE r \in {F(x) : x \in {v}} : TRUE

(***************************************************************************)
(* Maze: coordinates.                                                      *)
(***************************************************************************)
getCell(x, y) == x * HEIGHT + y
getX(cell) == cell \div HEIGHT
getY(cell) == cell % HEIGHT

getOppositeDirection(direction) ==
    CASE direction = NORTH -> SOUTH
      [] direction = EAST -> WEST
      [] direction = SOUTH -> NORTH
      [] direction = WEST -> EAST

hasNeighboringCell(cell, direction) ==
    CASE direction = NORTH -> getY(cell) < HEIGHT - 1
      [] direction = EAST -> getX(cell) < WIDTH - 1
      [] direction = SOUTH -> 0 < getY(cell)
      [] direction = WEST -> 0 < getX(cell)

\* only evaluated where hasNeighboringCell holds; callers model the assertion
getNeighboringCell(cell, direction) ==
    CASE direction = NORTH -> getCell(getX(cell), getY(cell) + 1)
      [] direction = EAST -> getCell(getX(cell) + 1, getY(cell))
      [] direction = SOUTH -> getCell(getX(cell), getY(cell) - 1)
      [] direction = WEST -> getCell(getX(cell) - 1, getY(cell))

inCenter(x, y) == CLLX <= x /\ x <= CURX /\ CLLY <= y /\ y <= CURY
inOrigin(x, y) == x = 0 /\ y = 0

(***************************************************************************)
(* Maze: per-cell data.  A maze value is a record of functions over Cells. *)
(***************************************************************************)
ZeroMaze ==
    [ known |-> [c \in Cells |-> [d \in Directions |-> FALSE]],
      wall |-> [c \in Cells |-> [d \in Directions |-> FALSE]],
      distance |-> [c \in Cells |-> 0],
      discovered |-> [c \in Cells |-> FALSE],
      hasNext |-> [c \in Cells |-> FALSE],
      nextDirection |-> [c \in Cells |-> NORTH],
      straightAwayLength |-> [c \in Cells |-> 0] ]

isKnown(mz, cell, direction) == mz.known[cell][direction]
isWall(mz, cell, direction) == mz.wall[cell][direction]
setWall(mz, cell, direction, w) ==
    [mz EXCEPT !.known[cell][direction] = TRUE, !.wall[cell][direction] = w]
clearWall(mz, cell, direction) ==
    [mz EXCEPT !.known[cell][direction] = FALSE, !.wall[cell][direction] = FALSE]
setDistance(mz, cell, dist) == [mz EXCEPT !.distance[cell] = dist]
setDiscovered(mz, cell, b) == [mz EXCEPT !.discovered[cell] = b]
setNextDirection(mz, cell, direction) ==
    [mz EXCEPT !.nextDirection[cell] = direction, !.hasNext[cell] = TRUE]
clearNext(mz, cell) == [mz EXCEPT !.hasNext[cell] = FALSE]
setStraightAwayLength(mz, cell, len) == [mz EXCEPT !.straightAwayLength[cell] = len]

(***************************************************************************)
(* Algo::setCellWall / Algo::unsetCellWall.  The recursive call for the    *)
(* neighbour is made with bothSides = false and is unfolded here.          *)
(***************************************************************************)
\* a wall update that forgets the neighbour's side of the wall
setCellWall_OneSide(mz, cell, direction, w, bothSides) ==
    setWall(mz, cell, direction, w)

\* a wall update that writes the neighbour's wall of the same direction
setCellWall_SameSide(mz, cell, direction, w, bothSides) ==
    LET m1 == setWall(mz, cell, direction, w)
    IN  IF bothSides /\ hasNeighboringCell(cell, direction)
        THEN setWall(m1, getNeighboringCell(cell, direction), direction, w)
        ELSE m1

setCellWall(mz, cell, direction, w, bothSides) ==
    LET m1 == setWall(mz, cell, direction, w)
    IN  IF bothSides /\ hasNeighboringCell(cell, direction)
        THEN setWall(m1, getNeighboringCell(cell, direction),
                     getOppositeDirection(direction), w)
        ELSE m1

\* a rollback that forgets the neighbour's side of the wall
unsetCellWall_OneSide(mz, cell, direction, bothSides) ==
    clearWall(mz, cell, direction)

unsetCellWall(mz, cell, direction, bothSides) ==
    LET m1 == clearWall(mz, cell, direction)
    IN  IF bothSides /\ hasNeighboringCell(cell, direction)
        THEN clearWall(m1, getNeighboringCell(cell, direction),
                       getOppositeDirection(direction))
        ELSE m1

(***************************************************************************)
(* Algo::solve, lines 39-55: the perimeter loops.                          *)
(***************************************************************************)
\* perimeter loops whose last test is off by one: no NORTH wall is ever set
PerimeterCell_OffByOne(mz, x, y) ==
    LET c == getCell(x, y)
        m1 == IF x = 0 THEN setCellWall(mz, c, WEST, TRUE, TRUE) ELSE mz
        m2 == IF y = 0 THEN setCellWall(m1, c, SOUTH, TRUE, TRUE) ELSE m1
        m3 == IF x = WIDTH - 1 THEN setCellWall(m2, c, EAST, TRUE, TRUE) ELSE m2
        m4 == IF y = HEIGHT THEN setCellWall(m3, c, NORTH, TRUE, TRUE) ELSE m3
    IN  m4

PerimeterCell(mz, x, y) ==
    LET c == getCell(x, y)
        m1 == IF x = 0 THEN setCellWall(mz, c, WEST, TRUE, TRUE) ELSE mz
        m2 == IF y = 0 THEN setCellWall(m1, c, SOUTH, TRUE, TRUE) ELSE m1
        m3 == IF x = WIDTH - 1 THEN setCellWall(m2, c, EAST, TRUE, TRUE) ELSE m2
        m4 == IF y = HEIGHT - 1 THEN setCellWall(m3, c, NORTH, TRUE, TRUE) ELSE m3
    IN  m4

RECURSIVE InitPerimeter(_, _)
InitPerimeter(mz, i) ==
    IF i = WIDTH * HEIGHT THEN mz
    ELSE Bind(PerimeterCell(mz, i \div HEIGHT, i % HEIGHT),
              LAMBDA m : InitPerimeter(m, i + 1))

(***************************************************************************)
(* Boundary (API): the physical maze answers wall queries truthfully,      *)
(* relative to the heading.  An interior wall is recorded in 'walls' as    *)
(* <<cell, NORTH>> or <<cell, EAST>>.                                      *)
(***************************************************************************)
EdgeOf(cell, direction) ==
    IF direction = NORTH \/ direction = EAST
    THEN <<cell, direction>>
    ELSE <<getNeighboringCell(cell, direction), getOppositeDirection(direction)>>

TrueWall(wl, cell, direction) ==
    ~hasNeighboringCell(cell, direction) \/ EdgeOf(cell, direction) \in wl

wallFront(wl, x, y, d) == TrueWall(wl, getCell(x, y), d)
wallRight(wl, x, y, d) == TrueWall(wl, getCell(x, y), (d + 1) % 4)
wallLeft(wl, x, y, d) == TrueWall(wl, getCell(x, y), (d + 3) % 4)

(***************************************************************************)
(* Algo::readWall and Algo::readWalls.  readWalls returns the maze after   *)
(* sensing and the data byte handed to History::add.                       *)
(***************************************************************************)
\* a dispatch that asks the left sensor for the right wall and vice versa
readWall_LeftRightSwapped(wl, x, y, d, direction) ==
    LET rel == (direction - d + 4) % 4
    IN  CASE rel = 0 -> wallFront(wl, x, y, d)
          [] rel = 1 -> wallLeft(wl, x, y, d)
          [] rel = 3 -> wallRight(wl, x, y, d)

readWall(wl, x, y, d, direction) ==
    LET rel == (direction - d + 4) % 4
    IN  CASE rel = 0 -> wallFront(wl, x, y, d)
          [] rel = 1 -> wallRight(wl, x, y, d)
          [] rel = 3 -> wallLeft(wl, x, y, d)

\* sensing that does not skip the walls already known
readOne_NoKnownTest(acc, wl, x, y, d, i) ==
    LET direction == (d + i + 4) % 4
        w == readWall(wl, x, y, d, direction)
    IN  [ maze |-> setCellWall(acc.maze, getCell(x, y), direction, w, TRUE),
          data |-> acc.data + 2 ^ (direction + 4) + (IF w THEN 2 ^ direction ELSE 0) ]

readOne(acc, wl, x, y, d, i) ==
    LET direction == (d + i + 4) % 4
    IN  IF ~isKnown(acc.maze, getCell(x, y), direction)
        THEN LET w == readWall(wl, x, y, d, direction)
             IN  [ maze |-> setCellWall(acc.maze, getCell(x, y), direction, w, TRUE),
                   data |-> acc.data + 2 ^ (direction + 4)
                                     + (IF w THEN 2 ^ direction ELSE 0) ]
        ELSE acc

readWalls(mz, wl, x, y, d) ==
    Bind(readOne([maze |-> mz, data |-> 0], wl, x, y, d, -1), LAMBDA a1 :
    Bind(readOne(a1, wl, x, y, d, 0), LAMBDA a2 :
    readOne(a2, wl, x, y, d, 1)))

(***************************************************************************)
(* History: a stack of <<cell, data>> entries (History::add, ::pop,        *)
(* ::size).  History::move is a per-hop hook that leaves the stack alone.  *)
(***************************************************************************)
HistoryAdd(h, cell, data) == Append(h, <<cell, data>>)
HistoryMove(h) == h
HistoryCell(cellAndData) == cellAndData[1]
HistoryData(cellAndData) == cellAndData[2]
Learned(data, direction) == (data \div (2 ^ (direction + 4))) % 2 = 1

(***************************************************************************)
(* Algo::reset, lines 124-134: the rollback loop.                          *)
(***************************************************************************)
UndoEntry(mz, cellAndData) ==
    LET cell == HistoryCell(cellAndData)
        data == HistoryData(cellAndData)
        u(m, direction) == IF Learned(data, direction)
                           THEN unsetCellWall(m, cell, direction, TRUE)
                           ELSE m
    IN  u(u(u(u(mz, 0), 1), 2), 3)

\* the entries are popped newest first: entry n, then n - 1, down to 1
RECURSIVE Rollback(_, _, _)
Rollback(mz, h, n) ==
    IF n = 0 THEN mz
    ELSE Bind(UndoEntry(mz, h[n]), LAMBDA m : Rollback(m, h, n - 1))

(***************************************************************************)
(* Cost model: Algo::getTurnCost, Algo::getStraightAwayCost and the edge   *)
(* cost of Algo::checkNeighbor (lines 284-288).  The length argument is a  *)
(* byte, the cost a twobyte.                                               *)
(***************************************************************************)
getTurnCost(fst) == IF fst THEN FastCost ELSE SimpleTurnCost

\* a straight cost that divides by one more than the run length
getStraightAwayCost_OffByOne(fst, length) ==
    IF fst THEN FastCost \div (length + 1) ELSE SimpleStraightCost

getStraightAwayCost(fst, length) ==
    IF fst THEN FastCost \div length ELSE SimpleStraightCost

IsStraight(mz, cell, direction) ==
    mz.nextDirection[cell] = getOppositeDirection(direction)

EdgeCost(mz, cell, direction, fst) ==
    IF IsStraight(mz, cell, direction)
    THEN getStraightAwayCost(fst, (mz.straightAwayLength[cell] + 1) % Byte)
    ELSE getTurnCost(fst)

(***************************************************************************)
(* Heap: the set of queued cells; the key of a cell is its distance in the *)
(* maze.  Heap::pop removes the cell of least distance; among cells of     *)
(* equal distance it takes the least identifier (low) or the greatest.     *)
(***************************************************************************)
HeapPush(hp, cell) == hp \cup {cell}
HeapUpdate(hp, cell) == hp
HeapTop(mz, hp, low) ==
    CHOOSE c \in hp : \A o \in hp :
        \/ mz.distance[c] < mz.distance[o]
        \/ (mz.distance[c] = mz.distance[o] /\ (IF low THEN c <= o ELSE c >= o))

(***************************************************************************)
(* Algo::checkNeighbor.  s is [maze, heap, ok]; ok turns FALSE when the    *)
(* assertion of getNeighboringCell fails.                                  *)
(***************************************************************************)
\* the record kept of the Heap calls of a pass: the cells pushed so far,
\* whether every push was of a cell never pushed and absent from the Heap
\* and every update of a cell in the Heap, and whether an update was made
NoHeapUse == [pushed |-> {}, pre |-> TRUE, updated |-> FALSE]

UsePush(use, hp, cell) ==
    [use EXCEPT !.pushed = @ \cup {cell},
                !.pre = @ /\ cell \notin hp /\ cell \notin use.pushed]

UseUpdate(use, hp, cell) ==
    [use EXCEPT !.pre = @ /\ cell \in hp, !.updated = TRUE]

checkNeighbor(s, cell, direction, fst) ==
    LET mz == s.maze
        neighbor == getNeighboringCell(cell, direction)
        directionFromNeighbor == getOppositeDirection(direction)
        costToNeighbor ==
            (mz.distance[cell] + EdgeCost(mz, cell, direction, fst)) % TwoByte
    IN  IF ~s.ok \/ ~hasNeighboringCell(cell, direction)
        THEN [s EXCEPT !.ok = FALSE]
        ELSE
        IF ~mz.discovered[neighbor] \/ costToNeighbor < mz.distance[neighbor]
        THEN LET m1 == setDistance(mz, neighbor, costToNeighbor)
                 m2 == setNextDirection(m1, neighbor, directionFromNeighbor)
                 m3 == setStraightAwayLength(m2, neighbor,
                          IF mz.nextDirection[cell] = directionFromNeighbor
                          THEN mz.straightAwayLength[cell] + 1 ELSE 1)
             IN  IF ~mz.discovered[neighbor]
                 THEN [maze |-> setDiscovered(m3, neighbor, TRUE),
                       heap |-> HeapPush(s.heap, neighbor), ok |-> s.ok,
                       use |-> UsePush(s.use, s.heap, neighbor)]
                 ELSE [maze |-> m3, heap |-> HeapUpdate(s.heap, neighbor), ok |-> s.ok,
                       use |-> UseUpdate(s.use, s.heap, neighbor)]
        ELSE s

(***************************************************************************)
(* Goal region helpers.                                                    *)
(***************************************************************************)
CenterCells == {getCell(x, y) : x \in CLLX..CURX, y \in CLLY..CURY}
GoalCells(mode) == IF mode = CENTER THEN CenterCells ELSE {getCell(0, 0)}

resetDestinationCellDistances(mz, mode) ==
    [mz EXCEPT !.distance = [c \in Cells |->
        IF c \in GoalCells(mode) THEN maxDistance ELSE @[c]]]

\* the loops visit the cells in increasing identifier order and replace
\* 'closest' only on a strictly smaller distance
getClosestDestinationCell(mz, mode) ==
    IF mode = CENTER
    THEN CHOOSE c \in CenterCells : \A o \in CenterCells :
            \/ mz.distance[c] < mz.distance[o]
            \/ (mz.distance[c] = mz.distance[o] /\ c <= o)
    ELSE getCell(0, 0)

(***************************************************************************)
(* Algo::reverseLinkedList.  Returns [maze, ret, ok]; ok is FALSE when the *)
(* assertion of getNeighboringCell fails on the way.                       *)
(***************************************************************************)
\* a reversal that forgets to point the last cell of the walk forward
RECURSIVE ReverseLoop_DropsLast(_, _, _)
ReverseLoop_DropsLast(mz, current, direction) ==
    IF mz.hasNext[current]
    THEN Bind(mz.nextDirection[current], LAMBDA temp :
         Bind(setNextDirection(mz, current, getOppositeDirection(direction)),
              LAMBDA m1 :
              IF ~hasNeighboringCell(current, temp)
              THEN [maze |-> m1, ret |-> NoCell, ok |-> FALSE]
              ELSE Bind(getNeighboringCell(current, temp), LAMBDA nxt :
                        ReverseLoop_DropsLast(m1, nxt, temp))))
    ELSE [maze |-> mz, ret |-> current, ok |-> TRUE]

RECURSIVE ReverseLoop(_, _, _)
ReverseLoop(mz, current, direction) ==
    IF mz.hasNext[current]
    THEN Bind(mz.nextDirection[current], LAMBDA temp :
         Bind(setNextDirection(mz, current, getOppositeDirection(direction)),
              LAMBDA m1 :
              IF ~hasNeighboringCell(current, temp)
              THEN [maze |-> m1, ret |-> NoCell, ok |-> FALSE]
              ELSE Bind(getNeighboringCell(current, temp), LAMBDA nxt :
                        ReverseLoop(m1, nxt, temp))))
    ELSE [maze |-> setNextDirection(mz, current, getOppositeDirection(direction)),
          ret |-> current, ok |-> TRUE]

reverseLinkedList(mz, cell) ==
    Bind(mz.nextDirection[cell], LAMBDA direction :
        IF ~hasNeighboringCell(cell, direction)
        THEN [maze |-> mz, ret |-> NoCell, ok |-> FALSE]
        ELSE Bind(clearNext(mz, cell), LAMBDA m1 :
             Bind(getNeighboringCell(cell, direction), LAMBDA current :
                  ReverseLoop(m1, current, direction))))

(***************************************************************************)
(* Algo::generatePath.                                                     *)
(***************************************************************************)
\* lines 202-206: the four directions of the popped cell, in order
CheckDirection(s, cell, direction, fst) ==
    IF s.ok /\ ~isWall(s.maze, cell, direction)
    THEN checkNeighbor(s, cell, direction, fst)
    ELSE s

Relax(s, cell, fst) ==
    Bind(CheckDirection(s, cell, 0, fst), LAMBDA s1 :
    Bind(CheckDirection(s1, cell, 1, fst), LAMBDA s2 :
    Bind(CheckDirection(s2, cell, 2, fst), LAMBDA s3 :
    CheckDirection(s3, cell, 3, fst))))

\* a goal test that breaks out of the loop without clearing the Heap
StopAtGoal_NoClear(s) == s

\* lines 210-213: Heap::clear() and break
StopAtGoal(s) == [s EXCEPT !.heap = {}]

\* lines 200-214: the loop of Dijkstra's algorithm
RECURSIVE Dijkstra(_, _, _, _)
Dijkstra(s, mode, fst, low) ==
    IF s.heap = {} \/ ~s.ok THEN s
    ELSE Bind(HeapTop(s.maze, s.heap, low), LAMBDA cell :
         Bind([s EXCEPT !.heap = @ \ {cell}], LAMBDA popped :
         Bind(Relax(popped, cell, fst), LAMBDA s1 :
              IF ~s1.ok THEN s1
              ELSE IF cell = getClosestDestinationCell(s1.maze, mode)
                   THEN StopAtGoal(s1)
                   ELSE Dijkstra(s1, mode, fst, low))))

\* a seed that leaves the start cell undiscovered
SeedSearch_StartUndiscovered(mz, startCell, d, mode) ==
    Bind([mz EXCEPT !.discovered = [c \in Cells |-> FALSE]], LAMBDA m0 :
    Bind(setDistance(m0, startCell, 0), LAMBDA m1 :
    Bind(clearNext(setNextDirection(m1, startCell, getOppositeDirection(d)),
                   startCell), LAMBDA m2 :
    resetDestinationCellDistances(m2, mode))))

\* lines 172-192: the state the search starts from
SeedSearch(mz, startCell, d, mode) ==
    Bind([mz EXCEPT !.discovered = [c \in Cells |-> FALSE]], LAMBDA m0 :
    Bind(setDistance(setDiscovered(m0, startCell, TRUE), startCell, 0), LAMBDA m1 :
    Bind(clearNext(setNextDirection(m1, startCell, getOppositeDirection(d)),
                   startCell), LAMBDA m2 :
    resetDestinationCellDistances(m2, mode))))

\* the pointer fields of a maze together with the cell the reversal starts at
Snapshot(mz, goal) ==
    [goal |-> goal, hasNext |-> mz.hasNext, nextDirection |-> mz.nextDirection]

\* returns [maze, heap, ret, ok, back]: back holds the closest goal cell and
\* the pointer fields as the loop left them, before the reversal
generatePath(mz, hp, startCell, d, mode, fst, low) ==
    IF hp # {}
    THEN [maze |-> mz, heap |-> hp, ret |-> NoCell, ok |-> FALSE,
          back |-> Snapshot(mz, NoCell), use |-> NoHeapUse]
    ELSE Bind([maze |-> SeedSearch(mz, startCell, d, mode),
               heap |-> HeapPush(hp, startCell), ok |-> TRUE,
               use |-> UsePush(NoHeapUse, hp, startCell)], LAMBDA s0 :
         Bind(Dijkstra(s0, mode, fst, low), LAMBDA s :
              IF ~s.ok
              THEN [maze |-> s.maze, heap |-> s.heap, ret |-> NoCell, ok |-> FALSE,
                    back |-> Snapshot(s.maze, NoCell), use |-> s.use]
              ELSE Bind(getClosestDestinationCell(s.maze, mode), LAMBDA goal :
                   Bind(reverseLinkedList(s.maze, goal), LAMBDA r :
                        [maze |-> r.maze, heap |-> s.heap, ret |-> r.ret,
                         ok |-> r.ok,
                         back |-> Snapshot(s.maze, goal), use |-> s.use]))))

(***************************************************************************)
(* Algo::drawPath changes no state of the program; it only walks the       *)
(* pointers, and fails the assertion of getNeighboringCell when a pointer  *)
(* leaves the grid.  The two passes walk prefixes of the same chain.       *)
(***************************************************************************)
RECURSIVE drawPath(_, _)
drawPath(mz, current) ==
    IF mz.hasNext[current]
    THEN /\ hasNeighboringCell(current, mz.nextDirection[current])
         /\ drawPath(mz, getNeighboringCell(current, mz.nextDirection[current]))
    ELSE TRUE

(***************************************************************************)
(* Algo::isOneCellAway and Algo::moveOneCell with the state updates of     *)
(* lines 530-576.  moveOneCell returns [ok, x, y, d].                      *)
(***************************************************************************)
isOneCellAway(mz, mx, my, target) ==
    LET x == getX(target)
        y == getY(target)
    IN  \/ (mx = x /\ my + 1 = y /\ ~isWall(mz, getCell(mx, my), NORTH))
        \/ (mx = x /\ my - 1 = y /\ ~isWall(mz, getCell(mx, my), SOUTH))
        \/ (mx + 1 = x /\ my = y /\ ~isWall(mz, getCell(mx, my), EAST))
        \/ (mx - 1 = x /\ my = y /\ ~isWall(mz, getCell(mx, my), WEST))

\* a direction test that takes a smaller y for NORTH
moveDirectionTo_YFlipped(mx, my, target) ==
    IF getX(target) > mx THEN EAST
    ELSE IF getY(target) > my THEN SOUTH
    ELSE IF getX(target) < mx THEN WEST
    ELSE NORTH

moveDirectionTo(mx, my, target) ==
    IF getX(target) > mx THEN EAST
    ELSE IF getY(target) < my THEN SOUTH
    ELSE IF getX(target) < mx THEN WEST
    ELSE NORTH

turnLeftUpdateState(p) == [p EXCEPT !.d = (@ + 3) % 4]
turnRightUpdateState(p) == [p EXCEPT !.d = (@ + 1) % 4]
turnAroundUpdateState(p) == [p EXCEPT !.d = (@ + 2) % 4]

moveForwardUpdateState(p) ==
    [p EXCEPT !.x = @ + (IF p.d = EAST THEN 1 ELSE IF p.d = WEST THEN -1 ELSE 0),
              !.y = @ + (IF p.d = NORTH THEN 1 ELSE IF p.d = SOUTH THEN -1 ELSE 0)]

\* the Boundary calls are appended to p.cmds in the order they are made
moveForward(p) ==
    [moveForwardUpdateState(p) EXCEPT !.cmds = @ \o <<"moveForward">>]

leftAndForward(p) ==
    [moveForwardUpdateState(turnLeftUpdateState(p))
        EXCEPT !.cmds = @ \o <<"turnLeft", "moveForward">>]

rightAndForward(p) ==
    [moveForwardUpdateState(turnRightUpdateState(p))
        EXCEPT !.cmds = @ \o <<"turnRight", "moveForward">>]

aroundAndForward(p) ==
    [moveForwardUpdateState(turnAroundUpdateState(p))
        EXCEPT !.cmds = @ \o <<"turnLeft", "turnLeft", "moveForward">>]

moveOneCell(mz, mx, my, md, target) ==
    LET p == [ok |-> TRUE, x |-> mx, y |-> my, d |-> md, cmds |-> <<>>]
        moveDirection == moveDirectionTo(mx, my, target)
    IN  IF ~isOneCellAway(mz, mx, my, target) THEN [p EXCEPT !.ok = FALSE]
        ELSE IF moveDirection = md THEN moveForward(p)
        ELSE IF moveDirection = (md + 1) % 4 THEN rightAndForward(p)
        ELSE IF moveDirection = (md + 2) % 4 THEN aroundAndForward(p)
        ELSE leftAndForward(p)

(***************************************************************************)
(* The physical mazes the model runs in: every subset of eight interior    *)
(* walls between the origin corner and the center region.                  *)
(***************************************************************************)
OptionalWalls ==
    { <<getCell(0, 0), NORTH>>, <<getCell(0, 0), EAST>>,
      <<getCell(0, 1), NORTH>>, <<getCell(0, 1), EAST>>,
      <<getCell(1, 0), NORTH>>, <<getCell(1, 0), EAST>>,
      <<getCell(0, 2), EAST>>, <<getCell(2, 0), NORTH>> }

Mazes == SUBSET OptionalWalls

NoProbe == [cell |-> NoCell, direction |-> NORTH]

(***************************************************************************)
(* Initial state: the statically zeroed Maze, an empty History and Heap,   *)
(* before Algo::solve has run.  The mouse fields are assigned by solve     *)
(* before they are read.                                                   *)
(***************************************************************************)
Init ==
    /\ pc = "init"
    /\ maze = ZeroMaze
    /\ m_x = 0
    /\ m_y = 0
    /\ m_d = NORTH
    /\ m_mode = CENTER
    /\ history = <<>>
    /\ heap = {}
    /\ start = NoCell
    /\ backChain = Snapshot(ZeroMaze, NoCell)
    /\ resetPending = FALSE
    /\ resets = 0
    /\ walls \in Mazes
    /\ fast \in BOOLEAN
    /\ lowFirst \in BOOLEAN
    /\ probe = NoProbe
    /\ api = <<>>
    /\ heapUse = NoHeapUse

(***************************************************************************)
(* Algo::solve, lines 12-61: size check, perimeter, mouse.                 *)
(***************************************************************************)
SolveInit ==
    /\ pc = "init"
    /\ IF 1 <= WIDTH /\ 1 <= HEIGHT /\ WIDTH <= MaxGrid /\ HEIGHT <= MaxGrid
       THEN /\ maze' = InitPerimeter(maze, 0)
            /\ m_x' = 0
            /\ m_y' = 0
            /\ m_d' = NORTH
            /\ m_mode' = CENTER
            /\ pc' = "loop"
       ELSE /\ pc' = "done"
            /\ UNCHANGED <<maze, m_x, m_y, m_d, m_mode>>
    /\ UNCHANGED <<history, heap, start, backChain, resetPending, resets, walls,
                   fast, lowFirst, probe, api,
                   heapUse>>

(***************************************************************************)
(* The Boundary raises the reset signal.                                   *)
(***************************************************************************)
PressReset ==
    /\ pc \in {"loop", "step", "follow"}
    /\ ~resetPending
    /\ resets < MaxResets
    /\ resetPending' = TRUE
    /\ resets' = resets + 1
    /\ UNCHANGED <<pc, maze, m_x, m_y, m_d, m_mode, history, heap, start,
                   backChain, walls, fast, lowFirst, probe, api,
                   heapUse>>

(***************************************************************************)
(* Algo::solve, lines 72-74 with Algo::reset.                              *)
(***************************************************************************)
Reset ==
    /\ pc = "loop"
    /\ resetPending
    /\ resetPending' = FALSE
    /\ m_x' = 0
    /\ m_y' = 0
    /\ m_d' = m_initialDirection
    /\ m_mode' = CENTER
    /\ maze' = Rollback(setStraightAwayLength(maze, getCell(0, 0), 0), history,
                         Len(history))
    /\ history' = <<>>
    /\ pc' = "step"
    /\ UNCHANGED <<heap, start, backChain, resets, walls, fast, lowFirst, probe, api,
                   heapUse>>

(***************************************************************************)
(* Algo::solve, lines 80-84: the loop is left when the step gave up.       *)
(***************************************************************************)
\* a loop that never tests the mode
LoopExit_Never(mode) == FALSE

LoopExit(mode) == mode = GIVEUP

AfterStep(mode) == IF LoopExit(mode) THEN "done" ELSE "loop"

(***************************************************************************)
(* Algo::step, lines 139-155: sense, search, give up or draw.  A failed    *)
(* assertion ends the process (pc = "abort").                              *)
(***************************************************************************)
Step ==
    /\ \/ pc = "step"
       \/ (pc = "loop" /\ ~resetPending)
    /\ Len(history) < MaxHist
    /\ \E current \in {getCell(m_x, m_y)} :
       \E rw \in {readWalls(maze, walls, m_x, m_y, m_d)} :
       \E gp \in {generatePath(rw.maze, heap, current, m_d, m_mode, fast,
                                lowFirst)} :
           /\ history' = HistoryAdd(history, current, rw.data)
           /\ maze' = gp.maze
           /\ heap' = gp.heap
           /\ heapUse' = gp.use
           /\ backChain' = gp.back
           /\ start' = gp.ret
           /\ IF ~gp.ok
              THEN pc' = "abort" /\ m_mode' = m_mode
              ELSE IF gp.ret # current
              THEN pc' = AfterStep(GIVEUP) /\ m_mode' = GIVEUP
              ELSE IF ~drawPath(gp.maze, gp.ret)
              THEN pc' = "abort" /\ m_mode' = m_mode
              ELSE pc' = "follow" /\ m_mode' = m_mode
    /\ UNCHANGED <<m_x, m_y, m_d, resetPending, resets, walls, fast, lowFirst,
                   probe, api>>

(***************************************************************************)
(* Algo::step, lines 160-167: the goal check, and the test of line 80.     *)
(***************************************************************************)
\* a goal check that never leaves CENTER mode
GoalCheck_StaysCenter(mode, x, y) ==
    IF mode = ORIGIN /\ inOrigin(x, y) THEN CENTER ELSE mode

GoalCheck(mode, x, y) ==
    LET m1 == IF mode = CENTER /\ inCenter(x, y) THEN ORIGIN ELSE mode
    IN  IF m1 = ORIGIN /\ inOrigin(x, y) THEN CENTER ELSE m1

\* a loop condition that does not ask whether the wall ahead is known
FollowGuard_NoKnownTest ==
    maze.hasNext[getCell(m_x, m_y)]

FollowGuard ==
    /\ maze.hasNext[getCell(m_x, m_y)]
    /\ isKnown(maze, getCell(m_x, m_y), maze.nextDirection[getCell(m_x, m_y)])

(***************************************************************************)
(* Algo::followPath: one iteration of the loop (lines 249-262).  The local *)
(* 'current' is the cell of the mouse.  When the reset signal is seen the  *)
(* loop breaks and step() ends with the goal check.                        *)
(***************************************************************************)
Hop ==
    /\ pc = "follow"
    /\ FollowGuard
    /\ \E current \in {getCell(m_x, m_y)} :
       \E direction \in {maze.nextDirection[current]} :
       \E p \in {IF hasNeighboringCell(current, direction)
                 THEN moveOneCell(maze, m_x, m_y, m_d,
                                  getNeighboringCell(current, direction))
                 ELSE [ok |-> FALSE, x |-> m_x, y |-> m_y, d |-> m_d,
                       cmds |-> <<>>]} :
           IF ~p.ok
           THEN /\ pc' = "abort"
                /\ UNCHANGED <<m_x, m_y, m_d, m_mode, history, api>>
           ELSE /\ m_x' = p.x
                /\ m_y' = p.y
                /\ m_d' = p.d
                /\ api' = p.cmds
                /\ history' = HistoryMove(history)
                /\ IF resetPending
                   THEN /\ m_mode' = GoalCheck(m_mode, p.x, p.y)
                        /\ pc' = AfterStep(GoalCheck(m_mode, p.x, p.y))
                   ELSE /\ m_mode' = m_mode
                        /\ pc' = "follow"
    /\ UNCHANGED <<maze, heap, start, backChain, resetPending, resets, walls,
                   fast, lowFirst, probe,
                   heapUse>>

(***************************************************************************)
(* Algo::followPath leaves its loop on the loop condition; step() ends     *)
(* with the goal check and solve() goes round.                             *)
(***************************************************************************)
FollowEnd ==
    /\ pc = "follow"
    /\ ~FollowGuard
    /\ m_mode' = GoalCheck(m_mode, m_x, m_y)
    /\ pc' = AfterStep(GoalCheck(m_mode, m_x, m_y))
    /\ UNCHANGED <<maze, m_x, m_y, m_d, history, heap, start, backChain,
                   resetPending, resets, walls, fast, lowFirst, probe, api,
                   heapUse>>

Next ==
    \/ SolveInit
    \/ PressReset
    \/ Reset
    \/ Step
    \/ Hop
    \/ FollowEnd

Spec == Init /\ [][Next]_vars

(***************************************************************************)
(* Notions used by the properties.                                         *)
(***************************************************************************)
\* the cells connected to the cells of S through edges that are not known
\* to hold a wall
RECURSIVE Reach(_, _)
Reach(mz, S) ==
    Bind(S \cup {getNeighboringCell(c, d) : <<c, d>> \in
                    {e \in S \X Directions :
                        hasNeighboringCell(e[1], e[2]) /\ ~isWall(mz, e[1], e[2])}},
         LAMBDA T : IF T = S THEN S ELSE Reach(mz, T))

GoalConnected(mz, cell, mode) == Reach(mz, {cell}) \cap GoalCells(mode) # {}

MouseCell == getCell(m_x, m_y)

\* a step of the model in which step() ran its search and the search returned
SearchReturned == Len(history') = Len(history) + 1 /\ start' # NoCell

(***************************************************************************)
(* C1: whenever step() runs its search, generatePath(current) returns the  *)
(* current cell if and only if a cell of the active goal region is         *)
(* connected to the current cell through edges that are not known-present  *)
(* walls; when it returns another cell, step() sets the mode to GIVEUP and *)
(* returns without moving.                                                 *)
(***************************************************************************)
C1_SearchDecidesConnectivity ==
    [][SearchReturned =>
        /\ (start' = MouseCell) <=> GoalConnected(maze', MouseCell, m_mode)
        /\ (start' # MouseCell) =>
              (m_mode' = GIVEUP /\ pc' = "done" /\ m_x' = m_x /\ m_y' = m_y)]_vars

(***************************************************************************)
(* More notions used by the properties.                                    *)
(***************************************************************************)
IsPerimeter(cell, direction) ==
    \/ (direction = WEST /\ getX(cell) = 0)
    \/ (direction = SOUTH /\ getY(cell) = 0)
    \/ (direction = EAST /\ getX(cell) = WIDTH - 1)
    \/ (direction = NORTH /\ getY(cell) = HEIGHT - 1)

Sides == Cells \X Directions

\* the cell in which the running step() began: the cell of the newest entry
StepCell == HistoryCell(history[Len(history)])

Moved == m_x' # m_x \/ m_y' # m_y

(***************************************************************************)
(* C2: reset() undoes all wall learning since the run began: after any     *)
(* sequence of steps followed by reset(), every non-perimeter wall that    *)
(* was known before is unknown on both of its sides, and position, heading *)
(* and mode are the ones set at initialization: (0,0), NORTH, CENTER.      *)
(***************************************************************************)
C2_ResetForgetsLearnedWalls ==
    [][(pc = "loop" /\ resetPending /\ pc' = "step") =>
        /\ \A e \in Sides :
              (isKnown(maze, e[1], e[2]) /\ ~IsPerimeter(e[1], e[2])) =>
                 /\ ~isKnown(maze', e[1], e[2])
                 /\ ~isKnown(maze', getNeighboringCell(e[1], e[2]),
                             getOppositeDirection(e[2]))
        /\ m_x' = 0 /\ m_y' = 0 /\ m_d' = NORTH /\ m_mode' = CENTER]_vars

\* a reset has been served after at least one step had sensed walls
C2_Witness ==
    /\ pc = "step"
    /\ history = <<>>
    /\ start # NoCell
    /\ \A e \in Sides : isKnown(maze, e[1], e[2]) <=> IsPerimeter(e[1], e[2])

(***************************************************************************)
(* C3: during followPath every hop crosses an edge whose wall is known at  *)
(* the time of the hop; the mouse does not hop when the next edge of the   *)
(* path is unknown; and once a hop is followed by a pending reset signal   *)
(* the step makes no further hop.                                          *)
(***************************************************************************)
C3_FollowOnlyKnownEdges ==
    [][/\ (Moved /\ pc # "loop") =>
             /\ pc = "follow"
             /\ maze.hasNext[MouseCell]
             /\ isKnown(maze, MouseCell, maze.nextDirection[MouseCell])
             /\ hasNeighboringCell(MouseCell, maze.nextDirection[MouseCell])
             /\ getCell(m_x', m_y') =
                   getNeighboringCell(MouseCell, maze.nextDirection[MouseCell])
       /\ (pc = "follow" /\ maze.hasNext[MouseCell]
             /\ ~isKnown(maze, MouseCell, maze.nextDirection[MouseCell])) =>
             ~Moved
       /\ (pc = "follow" /\ Moved /\ resetPending) => pc' = "loop"]_vars

\* a step that hopped and was cut short by the reset signal although the next
\* edge of its path was known
C3_Witness ==
    /\ pc = "loop"
    /\ resetPending
    /\ Len(history) > 0
    /\ MouseCell # StepCell
    /\ maze.hasNext[MouseCell]
    /\ isKnown(maze, MouseCell, maze.nextDirection[MouseCell])

(***************************************************************************)
(* C5: right after the initialization in solve(), before the first step,   *)
(* exactly the perimeter walls are known, and they are present.            *)
(***************************************************************************)
C5_InitKnowsOnlyPerimeter ==
    [][(pc = "init" /\ pc' = "loop") =>
        \A e \in Sides :
           /\ isKnown(maze', e[1], e[2]) <=> IsPerimeter(e[1], e[2])
           /\ isWall(maze', e[1], e[2]) <=> IsPerimeter(e[1], e[2])]_vars

\* the state between the initialization and the first step
C5_Witness ==
    /\ pc = "loop"
    /\ start = NoCell
    /\ history = <<>>
    /\ resets = 0
    /\ isKnown(maze, getCell(0, HEIGHT - 1), NORTH)

(***************************************************************************)
(* C6: wall symmetry in every reachable state: for a cell A with a         *)
(* neighbour B in direction d, wall d of A is known iff the opposite wall  *)
(* of B is known, and then both have the same presence value.              *)
(***************************************************************************)
C6_WallSymmetry ==
    \A e \in Sides :
        hasNeighboringCell(e[1], e[2]) =>
            LET b == getNeighboringCell(e[1], e[2])
                o == getOppositeDirection(e[2])
            IN  /\ isKnown(maze, e[1], e[2]) <=> isKnown(maze, b, o)
                /\ isKnown(maze, e[1], e[2]) =>
                      (isWall(maze, e[1], e[2]) <=> isWall(maze, b, o))

\* after a reset and a new step, an interior wall is known present and
\* another interior wall is known absent
C6_Witness ==
    /\ resets > 0
    /\ ~resetPending
    /\ \E e \in Sides : hasNeighboringCell(e[1], e[2])
                        /\ isKnown(maze, e[1], e[2]) /\ isWall(maze, e[1], e[2])
    /\ \E e \in Sides : hasNeighboringCell(e[1], e[2])
                        /\ isKnown(maze, e[1], e[2]) /\ ~isWall(maze, e[1], e[2])

(***************************************************************************)
(* C7: in every reachable state after the initialization, also after       *)
(* resets, every perimeter wall is known and present.                      *)
(***************************************************************************)
C7_PerimeterStays ==
    pc # "init" =>
        \A e \in Sides : IsPerimeter(e[1], e[2]) =>
            (isKnown(maze, e[1], e[2]) /\ isWall(maze, e[1], e[2]))

\* a reset has rolled back a non-empty history
C7_Witness ==
    /\ pc = "step"
    /\ resets > 0
    /\ ~resetPending
    /\ history = <<>>
    /\ start # NoCell
    /\ isKnown(maze, getCell(0, 0), WEST)

(***************************************************************************)
(* The edge-cost experiment: checkNeighbor is applied once to a cell whose *)
(* incoming direction, run length and distance are drawn from bounded      *)
(* sets, in both cost regimes.  Run lengths are those of a grid of at most *)
(* MaxGrid cells per side.                                                 *)
(***************************************************************************)
ProbeCell == getCell(1, 1)
ProbeDistances == {0, 1000}

CostInit ==
    /\ pc = "cost"
    /\ \E nd \in Directions, len \in 0..(MaxGrid - 1), dist \in ProbeDistances :
          maze = setDiscovered(setDistance(setStraightAwayLength(
                    [ZeroMaze EXCEPT !.nextDirection[ProbeCell] = nd],
                    ProbeCell, len), ProbeCell, dist), ProbeCell, TRUE)
    /\ probe \in [cell : {ProbeCell}, direction : Directions]
    /\ api = <<>>
    /\ heapUse = NoHeapUse
    /\ fast \in BOOLEAN
    /\ lowFirst = TRUE
    /\ m_x = 0
    /\ m_y = 0
    /\ m_d = NORTH
    /\ m_mode = CENTER
    /\ history = <<>>
    /\ heap = {}
    /\ start = NoCell
    /\ backChain = Snapshot(ZeroMaze, NoCell)
    /\ resetPending = FALSE
    /\ resets = 0
    /\ walls = {}

CostApply ==
    /\ pc = "cost"
    /\ \E s \in {checkNeighbor([maze |-> maze, heap |-> heap, ok |-> TRUE,
                               use |-> NoHeapUse],
                              probe.cell, probe.direction, fast)} :
          /\ maze' = s.maze
          /\ heap' = s.heap
    /\ pc' = "costed"
    /\ UNCHANGED <<m_x, m_y, m_d, m_mode, history, start, backChain,
                   resetPending, resets, walls, fast, lowFirst, probe, api,
                   heapUse>>

CostNext == CostApply

SpecCost == CostInit /\ [][CostNext]_vars

\* the cost checkNeighbor charged for the probed edge, and its run length
ProbeNeighbor == getNeighboringCell(probe.cell, probe.direction)
ProbeCharged == maze.distance[ProbeNeighbor] - maze.distance[probe.cell]
ProbeRun == maze.straightAwayLength[probe.cell] + 1
ProbeStraight ==
    maze.nextDirection[probe.cell] = getOppositeDirection(probe.direction)

(***************************************************************************)
(* C8: the edge cost used by checkNeighbor.  Simple regime: a turn costs   *)
(* 2 and a straight continuation 3 whatever the run length.  Fast regime:  *)
(* a turn costs 256 and the straight edge that brings the run length to k  *)
(* costs 256 \div k, which is strictly below the cost at k - 1, for every  *)
(* k up to MaxGrid; k is never 0.                                          *)
(***************************************************************************)
C8_EdgeCosts ==
    pc = "costed" =>
        /\ ProbeRun >= 1
        /\ (~fast /\ ~ProbeStraight) => ProbeCharged = 2
        /\ (~fast /\ ProbeStraight) => ProbeCharged = 3
        /\ (fast /\ ~ProbeStraight) => ProbeCharged = 256
        /\ (fast /\ ProbeStraight) =>
              /\ ProbeCharged = 256 \div ProbeRun
              /\ ProbeRun > 1 => ProbeCharged < 256 \div (ProbeRun - 1)
        /\ maze.straightAwayLength[ProbeNeighbor] =
              IF ProbeStraight THEN ProbeRun ELSE 1

\* the longest straight run of a 16 by 16 grid, in the fast regime
C8_Witness ==
    /\ pc = "costed"
    /\ fast
    /\ ProbeStraight
    /\ ProbeRun = MaxGrid
    /\ ProbeCharged = 16

(***************************************************************************)
(* C9: the reversal is its own inverse.  For the pointers left by a        *)
(* search that reached the goal region, reversing from the goal cell and   *)
(* reversing again from the returned start cell gives back the pointers    *)
(* the search left, cell for cell, the same cell being without an outgoing *)
(* pointer.                                                                *)
(***************************************************************************)
\* the outgoing pointer of every cell, -1 where there is none
Pointers(mz) ==
    [c \in Cells |-> IF mz.hasNext[c] THEN mz.nextDirection[c] ELSE -1]

BackMaze ==
    [maze EXCEPT !.hasNext = backChain.hasNext,
                 !.nextDirection = backChain.nextDirection]

\* the last search popped a cell of the goal region
SearchSucceeded ==
    /\ backChain.goal # NoCell
    /\ start # NoCell
    /\ maze.discovered[backChain.goal]

C9_ReversalIsInvolution ==
    SearchSucceeded =>
        \E r1 \in {reverseLinkedList(BackMaze, backChain.goal)} :
            /\ r1.ok
            /\ r1.ret = start
            /\ \E r2 \in {reverseLinkedList(r1.maze, r1.ret)} :
                  /\ r2.ok
                  /\ r2.ret = backChain.goal
                  /\ Pointers(r2.maze) = Pointers(BackMaze)

\* a successful search whose path has at least two hops and that changed
\* pointers: the goal is not next to the start cell
C9_Witness ==
    /\ pc = "follow"
    /\ SearchSucceeded
    /\ start = MouseCell
    /\ backChain.goal # start
    /\ \A d \in Directions :
          hasNeighboringCell(start, d) => getNeighboringCell(start, d) # backChain.goal
    /\ Pointers(maze) # Pointers(BackMaze)

(***************************************************************************)
(* C10: scenario on the 4 by 4 grid with center (1,1)-(2,2), the mouse at  *)
(* (0,0) heading NORTH in CENTER mode, only the perimeter known and no     *)
(* interior wall.  As claimed: the first step() follows its whole path,    *)
(* ends inside the center region and sets the mode to ORIGIN.              *)
(***************************************************************************)
OpenScenario == walls = {} /\ resets = 0 /\ WIDTH = 4 /\ HEIGHT = 4

C10_FirstStepReachesCenter ==
    (OpenScenario /\ pc = "loop" /\ Len(history) = 1) =>
        (inCenter(m_x, m_y) /\ m_mode = ORIGIN)

(***************************************************************************)
(* C10 as amended: the path of the first step() has a known first edge and *)
(* an unknown second edge, so the first step makes exactly one hop, to a   *)
(* neighbour of (0,0) outside the center, and leaves the mode CENTER; the  *)
(* second step() ends inside the center region with the mode ORIGIN.       *)
(***************************************************************************)
C10_SecondStepReachesCenter ==
    OpenScenario =>
        /\ (pc = "follow" /\ Len(history) = 1 /\ MouseCell = start) =>
              /\ maze.hasNext[start]
              /\ isKnown(maze, start, maze.nextDirection[start])
              /\ \E n \in {getNeighboringCell(start, maze.nextDirection[start])} :
                    /\ maze.hasNext[n]
                    /\ ~isKnown(maze, n, maze.nextDirection[n])
                    /\ getNeighboringCell(n, maze.nextDirection[n]) \in CenterCells
        /\ (pc = "loop" /\ Len(history) = 1) =>
              /\ m_x + m_y = 1
              /\ ~inCenter(m_x, m_y)
              /\ m_mode = CENTER
        /\ (pc = "loop" /\ Len(history) = 2) =>
              /\ inCenter(m_x, m_y)
              /\ m_mode = ORIGIN

C10_Witness ==
    /\ OpenScenario
    /\ pc = "loop"
    /\ Len(history) = 2
    /\ inCenter(m_x, m_y)
    /\ m_mode = ORIGIN

(***************************************************************************)
(* The run without reset signals in a maze whose true walls connect (0,0)  *)
(* to the center region.  solve() loops without pause, so a step that can  *)
(* be taken is eventually taken.                                           *)
(***************************************************************************)
TrueMaze(wl) ==
    [ZeroMaze EXCEPT !.wall = [c \in Cells |-> [d \in Directions |->
                                  TrueWall(wl, c, d)]]]

Solvable(wl) == Reach(TrueMaze(wl), {getCell(0, 0)}) \cap CenterCells # {}

LiveInit == Init /\ Solvable(walls)

LiveNext ==
    \/ SolveInit
    \/ Step
    \/ Hop
    \/ FollowEnd

SpecLive == LiveInit /\ [][LiveNext]_vars /\ WF_vars(LiveNext)

(***************************************************************************)
(* C4: in a solvable maze with truthful sensing and no reset signal the    *)
(* mode never becomes GIVEUP and no assertion fails; the mode only changes *)
(* from CENTER to ORIGIN with the mouse inside the center region and from  *)
(* ORIGIN to CENTER with the mouse at (0,0); and each mode leads to the    *)
(* other.  The history grows by one entry per step, so the model stops     *)
(* after MaxHist steps: the two leads-to properties are stated for the     *)
(* states that have at least LegSteps steps left.                          *)
(***************************************************************************)
StepsLeft == MaxHist - Len(history)

EnclosingWalls ==
    { <<getCell(0, 1), NORTH>>, <<getCell(0, 1), EAST>>,
      <<getCell(1, 0), NORTH>>, <<getCell(1, 0), EAST>> }

EnclosedScenario == walls = EnclosingWalls /\ resets = 0

(***************************************************************************)
(* C11: in the enclosed maze the search of the first step() from (0,0)     *)
(* heading NORTH in CENTER mode returns a cell other than (0,0) and the    *)
(* mode is GIVEUP once that first step has run.                            *)
(***************************************************************************)
C11_GivesUpOnFirstStep ==
    (EnclosedScenario /\ Len(history) = 1) =>
        (start # getCell(0, 0) /\ m_mode = GIVEUP)

\* what the code does in the enclosed maze: it never reaches GIVEUP
C11_EnclosedNeverGivesUp == EnclosedScenario => m_mode # GIVEUP

\* the run in the enclosed maze ends on a failed assertion
C11_EnclosedAborts == EnclosedScenario /\ pc = "abort"

(***************************************************************************)
(* C12: GIVEUP is terminal and has a single cause.  The mode becomes       *)
(* GIVEUP only in a step() whose search returned a cell other than the     *)
(* current one; in the state it is set the loop of solve() has been left,  *)
(* and from a state with mode GIVEUP nothing changes any more: no sensing, *)
(* search, reset, move or mode change.                                     *)
(***************************************************************************)
C12_GiveUpIsTerminal ==
    [][/\ (m_mode # GIVEUP /\ m_mode' = GIVEUP) =>
             /\ SearchReturned
             /\ start' # MouseCell
             /\ pc' = "done"
       /\ m_mode # GIVEUP]_vars

\* a step has given up and the loop of solve() has been left
C12_Witness ==
    /\ m_mode = GIVEUP
    /\ pc = "done"
    /\ start # MouseCell
    /\ Len(history) >= 1

(***************************************************************************)
(* The motion experiment: moveOneCell is applied once, from every cell and *)
(* heading, to every target cell.  Around the mouse the interior walls are *)
(* unknown, known absent or known present.                                 *)
(***************************************************************************)
WallKnowledge == {"unknown", "absent", "present"}

\* the maze after initialization with the interior sides of cell c sensed
SensedAround(c, k) ==
    LET side(m, d) == IF k # "unknown" /\ hasNeighboringCell(c, d)
                      THEN setCellWall(m, c, d, k = "present", TRUE)
                      ELSE m
    IN  side(side(side(side(InitPerimeter(ZeroMaze, 0), 0), 1), 2), 3)

MoveInit ==
    /\ pc = "move"
    /\ m_x \in 0..(WIDTH - 1)
    /\ m_y \in 0..(HEIGHT - 1)
    /\ m_d \in Directions
    /\ \E k \in WallKnowledge : maze = SensedAround(getCell(m_x, m_y), k)
    /\ probe \in [cell : Cells, direction : {NORTH}]
    /\ api = <<>>
    /\ heapUse = NoHeapUse
    /\ fast = FALSE
    /\ lowFirst = TRUE
    /\ m_mode = CENTER
    /\ history = <<>>
    /\ heap = {}
    /\ start = NoCell
    /\ backChain = Snapshot(ZeroMaze, NoCell)
    /\ resetPending = FALSE
    /\ resets = 0
    /\ walls = {}

MoveApply ==
    /\ pc = "move"
    /\ \E p \in {moveOneCell(maze, m_x, m_y, m_d, probe.cell)} :
          IF ~p.ok
          THEN /\ pc' = "abort"
               /\ UNCHANGED <<m_x, m_y, m_d, api>>
          ELSE /\ pc' = "moved"
               /\ m_x' = p.x
               /\ m_y' = p.y
               /\ m_d' = p.d
               /\ api' = p.cmds
    /\ UNCHANGED <<maze, m_mode, history, heap, start, backChain, resetPending,
                   resets, walls, fast, lowFirst, probe,
                   heapUse>>

MoveNext == MoveApply

SpecMove == MoveInit /\ [][MoveNext]_vars

\* the turns for a relative direction: none, one right, two lefts, one left
TurnsFor(rel) ==
    CASE rel = 0 -> <<>>
      [] rel = 1 -> <<"turnRight">>
      [] rel = 2 -> <<"turnLeft", "turnLeft">>
      [] rel = 3 -> <<"turnLeft">>

(***************************************************************************)
(* C13: for every heading and every target one grid step away in a         *)
(* direction d across an edge that is not a known-present wall,            *)
(* moveOneCell(target) leaves the mouse on the target with heading d and   *)
(* makes to the Boundary exactly the turns of the relative direction       *)
(* followed by one move-forward.                                           *)
(***************************************************************************)
C13_MotionTranslation ==
    [][pc = "move" =>
         \A d \in Directions :
            ( /\ hasNeighboringCell(MouseCell, d)
              /\ getNeighboringCell(MouseCell, d) = probe.cell
              /\ ~isWall(maze, MouseCell, d) ) =>
                 /\ pc' = "moved"
                 /\ getCell(m_x', m_y') = probe.cell
                 /\ m_d' = d
                 /\ api' = TurnsFor((d - m_d + 4) % 4) \o <<"moveForward">>]_vars

\* the mouse has turned around through two left turns and moved south
C13_Witness ==
    /\ pc = "moved"
    /\ m_d = SOUTH
    /\ api = <<"turnLeft", "turnLeft", "moveForward">>

(***************************************************************************)
(* C14: the Heap is empty when a search pass starts and when it ends,      *)
(* whether the pass ended by popping the closest goal cell or by           *)
(* exhausting the Heap; so the assertion of line 198 never fails.  Passes  *)
(* run inside step(), so the Heap is empty in every state between them.    *)
(***************************************************************************)
C14_HeapEmptyBetweenPasses == heap = {}

\* a second or later pass has ended by popping the goal cell
C14_Witness ==
    /\ pc = "follow"
    /\ Len(history) >= 2
    /\ SearchSucceeded
    /\ heap = {}

(***************************************************************************)
(* The chain of next pointers that starts at cell c: it is well formed     *)
(* when every hop goes to an existing neighbour, not yet visited, across   *)
(* an edge that is not a known-present wall, and the cell without an       *)
(* outgoing pointer belongs to the goal region of the mode.                *)
(***************************************************************************)
RECURSIVE ForwardChain(_, _, _, _)
ForwardChain(mz, c, visited, mode) ==
    IF ~mz.hasNext[c] THEN c \in GoalCells(mode)
    ELSE /\ hasNeighboringCell(c, mz.nextDirection[c])
         /\ ~isWall(mz, c, mz.nextDirection[c])
         /\ getNeighboringCell(c, mz.nextDirection[c]) \notin visited
         /\ ForwardChain(mz, getNeighboringCell(c, mz.nextDirection[c]),
                         visited \cup {getNeighboringCell(c, mz.nextDirection[c])},
                         mode)

(***************************************************************************)
(* C15: after every search that returns the cell it was rooted at, the     *)
(* next pointers form a forward chain from the current cell to a cell of   *)
(* the active goal region whose outgoing pointer is absent; the chain      *)
(* visits no cell twice and every hop goes to an existing neighbour across *)
(* an edge that is not a known-present wall.                               *)
(***************************************************************************)
C15_ForwardChainToGoal ==
    [][(SearchReturned /\ start' = MouseCell) =>
          ForwardChain(maze', MouseCell, {MouseCell}, m_mode)]_vars

\* the same for the searches that popped a cell of the goal region
C15_ChainWhenGoalReached ==
    [][(SearchReturned /\ start' = MouseCell
          /\ GoalConnected(maze', MouseCell, m_mode)) =>
          ForwardChain(maze', MouseCell, {MouseCell}, m_mode)]_vars

(***************************************************************************)
(* C16: reset() is the only operation that turns a known wall into an      *)
(* unknown one.  Across every step of step() (sensing, search, rendering,  *)
(* path following, goal check), and across every other transition that is *)
(* not reset(), each wall that was known is still known with the same      *)
(* presence value: sensing writes only walls that were unknown.            *)
(***************************************************************************)
ResetServed == pc = "loop" /\ resetPending /\ pc' = "step"

C16_OnlyResetForgets ==
    [][~ResetServed =>
          \A e \in Sides : isKnown(maze, e[1], e[2]) =>
              /\ isKnown(maze', e[1], e[2])
              /\ isWall(maze', e[1], e[2]) = isWall(maze, e[1], e[2])]_vars

\* a step has sensed at a cell of the center region, next to walls that
\* earlier steps had learned
C16_Witness ==
    /\ pc = "follow"
    /\ Len(history) >= 2
    /\ HistoryCell(history[Len(history)]) \in CenterCells
    /\ HistoryData(history[Len(history)]) # 0
    /\ \E d \in Directions :
          /\ isKnown(maze, HistoryCell(history[Len(history)]), d)
          /\ ~Learned(HistoryData(history[Len(history)]), d)

(***************************************************************************)
(* C17: at the start of every step(), the first one and the first after a  *)
(* reset() included, the wall behind the mouse (opposite its heading, at   *)
(* its cell) is already known; the step senses left, front and right only, *)
(* never the wall behind, and after sensing all four walls of the cell are *)
(* known.                                                                  *)
(***************************************************************************)
StepStarts == pc = "step" \/ (pc = "loop" /\ ~resetPending)
StepRuns == Len(history') = Len(history) + 1
Behind == getOppositeDirection(m_d)

C17_WallBehindKnown ==
    /\ [](StepStarts => isKnown(maze, MouseCell, Behind))
    /\ [][StepRuns =>
            /\ ~Learned(HistoryData(history'[Len(history')]), Behind)
            /\ \A d \in Directions : isKnown(maze', MouseCell, d)]_vars

\* a step starts in a cell the mouse entered through an interior edge
C17_Witness ==
    /\ StepStarts
    /\ Len(history) >= 1
    /\ hasNeighboringCell(MouseCell, Behind)
    /\ isKnown(maze, MouseCell, Behind)
    /\ \E d \in Directions : ~isKnown(maze, MouseCell, d)

(***************************************************************************)
(* C18: each step() records exactly one History entry, for the cell the    *)
(* mouse occupies when the step begins.  Its learned flags are exactly the *)
(* directions among left, front and right whose wall was unknown before    *)
(* the sensing of that step, its presence bits are the sensed values of    *)
(* those directions, and both sides of each such wall are updated in the   *)
(* maze.  The rest of the step leaves the History alone.                   *)
(***************************************************************************)
StepTaken == StepStarts /\ pc' \in {"follow", "abort", "done"}

\* the bits of the entry for one direction, from the state before sensing
EntryBits(direction) ==
    IF direction # Behind /\ ~isKnown(maze, MouseCell, direction)
    THEN 2 ^ (direction + 4)
            + (IF TrueWall(walls, MouseCell, direction) THEN 2 ^ direction ELSE 0)
    ELSE 0

C18_OneEntryPerStep ==
    [][/\ StepTaken =>
            /\ history' = Append(history,
                   <<MouseCell, EntryBits(NORTH) + EntryBits(EAST)
                                  + EntryBits(SOUTH) + EntryBits(WEST)>>)
            /\ \A d \in Directions : EntryBits(d) # 0 =>
                  /\ isKnown(maze', MouseCell, d)
                  /\ isWall(maze', MouseCell, d) = TrueWall(walls, MouseCell, d)
                  /\ hasNeighboringCell(MouseCell, d) =>
                        /\ isKnown(maze', getNeighboringCell(MouseCell, d),
                                   getOppositeDirection(d))
                        /\ isWall(maze', getNeighboringCell(MouseCell, d),
                                  getOppositeDirection(d))
                              = TrueWall(walls, MouseCell, d)
       /\ (~StepTaken /\ ~ResetServed) => history' = history]_vars

\* a second or later step has learned a wall that is present and one that
\* is absent
C18_Witness ==
    /\ pc = "follow"
    /\ Len(history) >= 2
    /\ MouseCell = StepCell
    /\ \E a, b \in Directions :
          /\ Learned(HistoryData(history[Len(history)]), a)
          /\ isWall(maze, MouseCell, a)
          /\ Learned(HistoryData(history[Len(history)]), b)
          /\ ~isWall(maze, MouseCell, b)

(***************************************************************************)
(* C19: with truthful sensing no assertion fails, whatever the steps and   *)
(* resets: getNeighboringCell is never called for a direction without a    *)
(* neighbour, moveOneCell is only called with a target one cell away       *)
(* across an edge that is not a known-present wall (a failed assertion     *)
(* ends the process: pc = "abort"), and the mouse stays inside the grid.   *)
(***************************************************************************)
C19_NoAssertionFails ==
    /\ pc # "abort"
    /\ m_x \in 0..(WIDTH - 1)
    /\ m_y \in 0..(HEIGHT - 1)

\* the assertion that fails is the one of moveOneCell, never another one
C19_OnlyMoveAsserts ==
    [][pc' = "abort" =>
          /\ pc = "follow"
          /\ hasNeighboringCell(MouseCell, maze.nextDirection[MouseCell])
          /\ isWall(maze, MouseCell, maze.nextDirection[MouseCell])]_vars

\* the mouse stays inside the grid
C19_InsideGrid == m_x \in 0..(WIDTH - 1) /\ m_y \in 0..(HEIGHT - 1)

(***************************************************************************)
(* C20: whenever a search pass begins the current cell is outside the      *)
(* active goal region, under any interleaving of steps, reset signals      *)
(* raised in mid-path and resets; so resetting the distances of the goal   *)
(* region to 65535 never overwrites the distance 0 seeded at the start     *)
(* cell.                                                                   *)
(***************************************************************************)
C20_StartOutsideGoal ==
    StepStarts =>
        /\ MouseCell \notin GoalCells(m_mode)
        /\ SeedSearch(maze, MouseCell, m_d, m_mode).distance[MouseCell] = 0

\* a pass begins inside the center region, on the way back to the origin,
\* after a reset was served earlier in the run
C20_Witness ==
    /\ StepStarts
    /\ m_mode = ORIGIN
    /\ inCenter(m_x, m_y)
    /\ resets > 0

(***************************************************************************)
(* C21: within a search pass the calls respect the preconditions of the    *)
(* Heap: each cell is pushed at most once and only while it is absent from *)
(* the Heap, and Heap::update is called only for a cell that is in the     *)
(* Heap at that moment, so never for a cell already popped in the pass and *)
(* never for the start cell, which is popped first.                        *)
(***************************************************************************)
C21_HeapPreconditions == heapUse.pre

\* a pass has lowered the distance of a queued cell through Heap::update
C21_Witness ==
    /\ pc = "follow"
    /\ heapUse.updated
    /\ heapUse.pre
    /\ MouseCell \in heapUse.pushed
    /\ Cardinality(heapUse.pushed) >= 3

====
